---- MODULE Spec2Model ----
(***************************************************************************)
(* Lobby / match settlement core of the PaperPayout.io backend             *)
(* (src/main.py).  Every request handler is a sequence of database calls;  *)
(* each database call is one atomic step of the handler, and the steps of  *)
(* requests served by different workers interleave freely.                 *)
(*                                                                         *)
(* Money is kept in fixed point so that Python's round() is modelled by    *)
(* what it does:                                                           *)
(*   USD amounts  are integers in units of 1e-4 USD (round(x, 2) yields a  *)
(*                multiple of 100),                                        *)
(*   SOL amounts  are integers in units of 1e-8 SOL (round(x, 6) yields a  *)
(*                multiple of 100, round(x, 8) any integer).               *)
(* Document ids are the positions of the documents in their collection;    *)
(* a timestamp is the number of the request that wrote it (0 = not set).   *)
(***************************************************************************)
EXTENDS Integers, Sequences, FiniteSets, TLC

\* ---------------------------------------------------------------- bounds
\* Requests started in one behaviour: by the concurrent workers (Spec), and by
\* the single worker of the sequential specifications.
MaxRequests == 3
MaxSeqRequests == 5
MaxCrashRequests == 4
\* Requests started in WinnerSpec, the join that created the match included.
MaxWinnerRequests == 2
\* Longest results list of a settlement request in WinnerSpec.
MaxResults == 2
\* Worker crashes in one behaviour (CrashSpec).
MaxCrashes == 1
\* Requests started in NegSpec.
MaxNegRequests == 3
\* Requests started in FreshSpec.
MaxJoinRequests == 3
\* Requests started in LedgerSpec, the two joins that created the matches
\* included.
MaxLedgerRequests == 5

\* ------------------------------------------------------ program constants
\* main.py:330  "max_players": 10
DefaultMaxPlayers == 10
\* main.py:387  r.get("rank", 9999)
MissingRank == 9999
\* main.py:398  sol_price = 200.0
SolPrice == 200
\* main.py:396  fee = round(pot * 0.10, 2): the fee is pot / FeeDivisor
FeeDivisor == 10
\* main.py:194  amount_sol * 0.002 = amount_sol / WithdrawFeeDivisor
WithdrawFeeDivisor == 500
\* main.py:194  minimum network fee 0.000005 SOL, in units of 1e-8 SOL
MinWithdrawFee == 500
\* units of 1e-4 USD in one cent (round(x, 2)), units of 1e-8 SOL in 1e-6 SOL
\* (round(x, 6)), and units of 1e-8 SOL per unit of 1e-4 USD at price 1
CentUnits == 100
MicroSolUnits == 100
SolUnitsPerUsdUnit == 10000

\* ------------------------------------------------------------ input sets
Procs == {1, 2}
\* Users that send requests: user 1 has signed up, user 2 is the id the next
\* signup gets.
Emails == {"a", "b"}
Players == {1, 2}
\* Users already sitting in a lobby when the behaviour starts.
Fillers == <<101, 102, 103, 104, 105, 106, 107, 108, 109>>
\* 0.10 USD and 0.003 USD, in units of 1e-4 USD
Wagers == {1000, 30}
\* 0.00255 SOL and 0.0001 SOL, in units of 1e-8 SOL
WithdrawAmounts == {255000, 10000}

NoRank == -1

\* ------------------------------------------------------------ arithmetic
Max(a, b) == IF a >= b THEN a ELSE b

\* n / d rounded to the nearest integer, ties to the even one (d > 0).
RoundDiv(n, d) ==
  LET q == n \div d
      r == n % d
  IN  IF 2 * r < d THEN q
      ELSE IF 2 * r > d THEN q + 1
      ELSE IF q % 2 = 0 THEN q ELSE q + 1

\* round(n / d, 2) of a USD amount, round(n / d, 6) and round(n / d, 8) of a
\* SOL amount
Round2(n, d) == CentUnits * RoundDiv(n, d * CentUnits)
Round6(n, d) == MicroSolUnits * RoundDiv(n, d * MicroSolUnits)
Round8(n, d) == RoundDiv(n, d)

\* round(sol * 200.0, 2): a SOL amount shown in USD
SolToUsd(sol) == Round2(sol * SolPrice, SolUnitsPerUsdUnit)

\* ----------------------------------------------------------------- state
VARIABLES
  users,     \* collection "user": the e-mails, a user's id is its position
  wallets,   \* collection "wallet": user_id -> [balance_sol, balance_usd]
  lobbies,   \* collection "lobby", in insertion order
  matches,   \* collection "match", in insertion order
  txs,       \* collection "transaction", in insertion order
  pc,        \* per worker: the database call its request performs next
  loc,       \* per worker: the request body and the handler's local variables
  resp,      \* per worker: the response of its last finished request
  nreq,      \* requests started so far
  ncrash     \* worker crashes so far

vars == <<users, wallets, lobbies, matches, txs, pc, loc, resp, nreq, ncrash>>

Range(s) == {s[i] : i \in 1..Len(s)}
SetMin(S) == CHOOSE x \in S : \A y \in S : x <= y

NoLoc ==
  [rid |-> 0, user_id |-> 0, wager_usd |-> 0, amount_sol |-> 0, email |-> "",
   match_id |-> 0, results |-> <<>>, lobby_id |-> 0, players |-> <<>>,
   max_players |-> 0, winner |-> 0, balance_sol |-> 0, new_balance |-> 0]
\* The request bodies (JoinLobbyBody, MatchResultBody, WithdrawBody,
\* SignupBody) and the exchange a worker finished last: the request and the
\* response to it.  code 0: no exchange finished yet.
JoinReq(u, w) == [op |-> "join_lobby", user_id |-> u, wager_usd |-> w]
CompleteReq(mid, rs) == [op |-> "complete_match", match_id |-> mid, results |-> rs]
WithdrawReq(u, a) == [op |-> "withdraw", user_id |-> u, amount_sol |-> a]
SignupReq(e) == [op |-> "signup", email |-> e]
NoResp == [req |-> [op |-> "none"], code |-> 0]

Prefix(s, n) == SubSeq(s, 1, n)

\* A lobby as join_lobby creates it (main.py:328-334), after its first joins;
\* created_at 0: created before the first request of the behaviour.
WaitingLobby(w, ps) ==
  [wager_usd |-> w, max_players |-> DefaultMaxPlayers, players |-> ps,
   status |-> "waiting", created_at |-> 0, started_at |-> 0]

\* The state after signup of "a" and after nine joins with wager 0.10 USD and
\* nine joins with wager 0.003 USD by users that send no further request.
Init ==
  /\ users = <<"a">>
  /\ wallets = (1 :> [balance_sol |-> 0, balance_usd |-> 0])
  /\ lobbies = << WaitingLobby(1000, Prefix(Fillers, 9)),
                  WaitingLobby(30, Prefix(Fillers, 9)) >>
  /\ matches = <<>>
  /\ txs = <<>>
  /\ pc = [p \in Procs |-> "idle"]
  /\ loc = [p \in Procs |-> NoLoc]
  /\ resp = [p \in Procs |-> NoResp]
  /\ nreq = 0
  /\ ncrash = 0

\* A worker takes the next request: it is idle and fewer than n requests have
\* been started.
CanStart(p, n) == pc[p] = "idle" /\ nreq < n

\* The handler returns (or raises HTTPException): the worker is idle again.
Return(p, r) ==
  /\ pc' = [pc EXCEPT ![p] = "idle"]
  /\ loc' = [loc EXCEPT ![p] = NoLoc]
  /\ resp' = [resp EXCEPT ![p] = r]

Goto(p, label, l) ==
  /\ pc' = [pc EXCEPT ![p] = label]
  /\ loc' = [loc EXCEPT ![p] = l]
  /\ resp' = [resp EXCEPT ![p] = NoResp]

\* ------------------------------------------------- join_lobby (main.py:322)
\* The length test left out of the query.
EligibleLobbiesAnyLength(w) ==
  {i \in 1..Len(lobbies) :
     lobbies[i].wager_usd = w /\ lobbies[i].status = "waiting"}
\* find_one({"wager_usd", "status": "waiting", "$where": players.length <
\* max_players}): the first such lobby in the collection's order, 0 if none.
EligibleLobbies(w) ==
  {i \in 1..Len(lobbies) :
     /\ lobbies[i].wager_usd = w
     /\ lobbies[i].status = "waiting"
     /\ Len(lobbies[i].players) < lobbies[i].max_players}

FindLobby(w) ==
  IF EligibleLobbies(w) = {} THEN 0 ELSE SetMin(EligibleLobbies(w))

\* main.py:326-327: the request arrives, with a wager of W, and the lobby is
\* looked up.
JoinFindIn(p, W, n) ==
  /\ CanStart(p, n)
  /\ \E u \in Players, w \in W :
       LET i == FindLobby(w)
           l == [NoLoc EXCEPT !.rid = nreq + 1, !.user_id = u, !.wager_usd = w]
       IN  IF i = 0
           THEN Goto(p, "jl_insert", l)
           ELSE Goto(p, "jl_add",
                     [l EXCEPT !.lobby_id = i,
                               !.players = lobbies[i].players,
                               !.max_players = lobbies[i].max_players])
  /\ nreq' = nreq + 1
  /\ UNCHANGED <<users, wallets, lobbies, matches, txs, ncrash>>

JoinFind(p, n) == JoinFindIn(p, Wagers, n)

\* main.py:328-336: no lobby found, a new one is inserted.  Its created_at
\* is the time the handler read when it built the document, before the
\* insert_one call: the time at which its request was taken up.
JoinInsert(p) ==
  /\ pc[p] = "jl_insert"
  /\ lobbies' = Append(lobbies, [WaitingLobby(loc[p].wager_usd, <<>>)
                                  EXCEPT !.created_at = loc[p].rid])
  /\ Goto(p, "jl_add", [loc[p] EXCEPT !.lobby_id = Len(lobbies) + 1,
                                      !.players = <<>>,
                                      !.max_players = DefaultMaxPlayers])
  /\ UNCHANGED <<users, wallets, matches, txs, nreq, ncrash>>

\* The capacity test off by one.
IsFullOffByOne(ps, mx) == Len(ps) > mx
\* main.py:345: len(lobby["players"]) >= lobby.get("max_players", 10)
IsFull(ps, mx) == Len(ps) >= mx

\* main.py:358: the "waiting" response
WaitingResp(l, ps) ==
  [req |-> JoinReq(l.user_id, l.wager_usd),
   code |-> 200, status |-> "waiting", lobby_id |-> l.lobby_id, players |-> ps,
   max_players |-> l.max_players]

\* The membership test left out.
MustAppendAlways(u, ps) == TRUE
\* main.py:339-341: whether the player is appended to the lobby's list.
MustAppend(u, ps) == u \notin Range(ps)

\* The join records a "wager" transaction for the player it appends.
JoinAddWithWagerTx(p) ==
  /\ pc[p] = "jl_add"
  /\ LET l == loc[p]
         ps == IF MustAppend(l.user_id, l.players)
               THEN Append(l.players, l.user_id) ELSE l.players
     IN  /\ lobbies' = IF MustAppend(l.user_id, l.players)
                       THEN [lobbies EXCEPT ![l.lobby_id].players = ps]
                       ELSE lobbies
         /\ txs' = IF MustAppend(l.user_id, l.players)
                   THEN Append(txs, [user_id |-> l.user_id, tx_type |-> "wager",
                                     amount_sol |-> 0, amount_usd |-> l.wager_usd,
                                     status |-> "pending",
                                     meta |-> [lobby_id |-> l.lobby_id]])
                   ELSE txs
         /\ IF IsFull(ps, l.max_players)
            THEN Goto(p, "jl_start", [l EXCEPT !.players = ps])
            ELSE Return(p, WaitingResp(l, ps))
  /\ UNCHANGED <<users, wallets, matches, nreq, ncrash>>
\* main.py:339-345, 358: the player is appended to the handler's copy of the
\* list and the copy is written back ($set players), unless the player is in
\* it already; then the handler goes on to start the match or returns.
JoinAdd(p) ==
  /\ pc[p] = "jl_add"
  /\ LET l == loc[p]
         ps == IF MustAppend(l.user_id, l.players)
               THEN Append(l.players, l.user_id) ELSE l.players
     IN  /\ lobbies' = IF MustAppend(l.user_id, l.players)
                       THEN [lobbies EXCEPT ![l.lobby_id].players = ps]
                       ELSE lobbies
         /\ IF IsFull(ps, l.max_players)
            THEN Goto(p, "jl_start", [l EXCEPT !.players = ps])
            ELSE Return(p, WaitingResp(l, ps))
  /\ UNCHANGED <<users, wallets, matches, txs, nreq, ncrash>>

\* main.py:346: $set status "started", started_at
JoinStart(p) ==
  /\ pc[p] = "jl_start"
  /\ lobbies' = [lobbies EXCEPT ![loc[p].lobby_id].status = "started",
                                ![loc[p].lobby_id].started_at = loc[p].rid]
  /\ Goto(p, "jl_match", loc[p])
  /\ UNCHANGED <<users, wallets, matches, txs, nreq, ncrash>>

\* main.py:348-353: the match document of a lobby that filled
NewMatch(l) ==
  [lobby_id |-> l.lobby_id, wager_usd |-> l.wager_usd, players |-> l.players,
   started_at |-> l.rid, completed_at |-> 0, results |-> <<>>,
   winner_user_id |-> 0]

\* main.py:354-356: the match is inserted and the "started" response returned.
JoinMatch(p) ==
  /\ pc[p] = "jl_match"
  /\ matches' = Append(matches, NewMatch(loc[p]))
  /\ Return(p, [req |-> JoinReq(loc[p].user_id, loc[p].wager_usd),
                code |-> 200, status |-> "started",
                lobby_id |-> loc[p].lobby_id, match_id |-> Len(matches) + 1,
                players |-> loc[p].players])
  /\ UNCHANGED <<users, wallets, lobbies, txs, nreq, ncrash>>

JoinStep(p, n) ==
  JoinFind(p, n) \/ JoinInsert(p) \/ JoinAdd(p) \/ JoinStart(p) \/ JoinMatch(p)

\* --------------------------------------------- complete_match (main.py:376)
\* main.py:387: the sort key (r.get("rank", 9999), -float(r.get("score", 0)))
KeyRank(r) == IF r.rank = NoRank THEN MissingRank ELSE r.rank
KeyScoreAscending(r) == r.score
KeyScore(r) == 0 - r.score
KeyLess(a, b) ==
  \/ KeyRank(a) < KeyRank(b)
  \/ KeyRank(a) = KeyRank(b) /\ KeyScore(a) < KeyScore(b)

\* main.py:387: sorted(results, key)[0].  sorted() is stable, so the first
\* element is the earliest entry of the list that no entry's key precedes.
WinnerIndex(rs) ==
  SetMin({i \in 1..Len(rs) : \A j \in 1..Len(rs) : ~KeyLess(rs[j], rs[i])})
Winner(rs) == rs[WinnerIndex(rs)]

\* main.py:394-399: pot, fee, payout in USD and in SOL
Pot(wager, n) == wager * n
Fee(pot) == Round2(pot, FeeDivisor)
PayoutUsd(pot) == Round2(pot - Fee(pot), 1)
PayoutSol(pot) == Round6(PayoutUsd(pot) * SolUnitsPerUsdUnit, SolPrice)
\* The new balance not rounded.
CreditUnrounded(bal, payout_sol) == bal + payout_sol
\* main.py:404: new_sol = round(balance_sol + payout_sol, 6)
Credit(bal, payout_sol) == Round6(bal + payout_sol, 1)

\* The early return left out.
AlreadyCompletedNever(m) == FALSE
\* main.py:381: the match was completed before
AlreadyCompleted(m) == m.completed_at # 0

\* main.py:378-389: the match is looked up and the winner determined.
CompleteFind(p, RS, n) ==
  /\ CanStart(p, n)
  /\ \E mid \in 1..(Len(matches) + 1), rs \in RS :
       IF mid > Len(matches)
       THEN Return(p, [req |-> CompleteReq(mid, rs), code |-> 404])
       ELSE IF AlreadyCompleted(matches[mid])
       THEN Return(p, [req |-> CompleteReq(mid, rs), code |-> 200, ok |-> TRUE])
       ELSE IF rs = <<>>
       THEN Return(p, [req |-> CompleteReq(mid, rs), code |-> 400])
       ELSE Goto(p, "cm_update",
                 [NoLoc EXCEPT !.rid = nreq + 1, !.match_id = mid,
                               !.results = rs,
                               !.winner = Winner(rs).user_id,
                               !.wager_usd = matches[mid].wager_usd,
                               !.players = matches[mid].players])
  /\ nreq' = nreq + 1
  /\ UNCHANGED <<users, wallets, lobbies, matches, txs, ncrash>>

\* main.py:391: $set completed_at, results, winner_user_id
CompleteUpdate(p) ==
  /\ pc[p] = "cm_update"
  /\ matches' = [matches EXCEPT ![loc[p].match_id].completed_at = loc[p].rid,
                                ![loc[p].match_id].results = loc[p].results,
                                ![loc[p].match_id].winner_user_id = loc[p].winner]
  /\ Goto(p, "cm_wallet", loc[p])
  /\ UNCHANGED <<users, wallets, lobbies, txs, nreq, ncrash>>

\* main.py:402-403: the winner's wallet is looked up.
CompleteWallet(p) ==
  /\ pc[p] = "cm_wallet"
  /\ IF loc[p].winner \in DOMAIN wallets
     THEN Goto(p, "cm_credit",
               [loc[p] EXCEPT !.balance_sol = wallets[loc[p].winner].balance_sol])
     ELSE Goto(p, "cm_tx", loc[p])
  /\ UNCHANGED <<users, wallets, lobbies, matches, txs, nreq, ncrash>>

\* main.py:404-405: $set balance_sol, balance_usd from the balance read before
CompleteCredit(p) ==
  /\ pc[p] = "cm_credit"
  /\ LET pot == Pot(loc[p].wager_usd, Len(loc[p].players))
         new_sol == Credit(loc[p].balance_sol, PayoutSol(pot))
     IN  wallets' = [wallets EXCEPT ![loc[p].winner] =
                       [balance_sol |-> new_sol, balance_usd |-> SolToUsd(new_sol)]]
  /\ Goto(p, "cm_tx", loc[p])
  /\ UNCHANGED <<users, lobbies, matches, txs, nreq, ncrash>>

\* main.py:408-417: the payout transaction
PayoutTx(l) ==
  LET pot == Pot(l.wager_usd, Len(l.players))
  IN  [user_id |-> l.winner, tx_type |-> "payout",
       amount_sol |-> PayoutSol(pot), amount_usd |-> PayoutUsd(pot),
       status |-> "confirmed",
       meta |-> [match_id |-> l.match_id, pot_usd |-> pot, fee_usd |-> Fee(pot)]]

\* main.py:408-419: the transaction is inserted and the result returned.
CompleteTx(p) ==
  /\ pc[p] = "cm_tx"
  /\ txs' = Append(txs, PayoutTx(loc[p]))
  /\ Return(p, [req |-> CompleteReq(loc[p].match_id, loc[p].results),
                code |-> 200, ok |-> TRUE, winner |-> loc[p].winner,
                payout_usd |-> PayoutUsd(Pot(loc[p].wager_usd, Len(loc[p].players)))])
  /\ UNCHANGED <<users, wallets, lobbies, matches, nreq, ncrash>>

CompleteStep(p, RS, n) ==
  \/ CompleteFind(p, RS, n)
  \/ CompleteUpdate(p)
  \/ CompleteWallet(p)
  \/ CompleteCredit(p)
  \/ CompleteTx(p)

\* --------------------------------------------------- withdraw (main.py:186)
\* main.py:194: fee = max(0.000005, amount_sol * 0.002), times
\* WithdrawFeeDivisor so that it stays an integer
WithdrawFeeScaled(amount) == Max(MinWithdrawFee * WithdrawFeeDivisor, amount)
\* main.py:195: round(balance_sol - amount_sol - fee, 8)
AfterWithdraw(bal, amount) ==
  Round8((bal - amount) * WithdrawFeeDivisor - WithdrawFeeScaled(amount),
         WithdrawFeeDivisor)

\* main.py:188-197: the wallet is read and the new balance computed.
WithdrawFind(p, n) ==
  /\ CanStart(p, n)
  /\ \E u \in Players, a \in WithdrawAmounts :
       IF u \notin DOMAIN wallets
       THEN Return(p, [req |-> WithdrawReq(u, a), code |-> 404])
       ELSE IF wallets[u].balance_sol < a
       THEN Return(p, [req |-> WithdrawReq(u, a), code |-> 400])
       ELSE IF AfterWithdraw(wallets[u].balance_sol, a) < 0
       THEN Return(p, [req |-> WithdrawReq(u, a), code |-> 400])
       ELSE Goto(p, "wd_update",
                 [NoLoc EXCEPT !.rid = nreq + 1, !.user_id = u, !.amount_sol = a,
                               !.new_balance = AfterWithdraw(wallets[u].balance_sol, a)])
  /\ nreq' = nreq + 1
  /\ UNCHANGED <<users, wallets, lobbies, matches, txs, ncrash>>

\* main.py:199-205: $set balance_sol, balance_usd
WithdrawUpdate(p) ==
  /\ pc[p] = "wd_update"
  /\ wallets' = [wallets EXCEPT ![loc[p].user_id] =
                   [balance_sol |-> loc[p].new_balance,
                    balance_usd |-> SolToUsd(loc[p].new_balance)]]
  /\ Goto(p, "wd_tx", loc[p])
  /\ UNCHANGED <<users, lobbies, matches, txs, nreq, ncrash>>

\* main.py:207-216: the withdrawal transaction
WithdrawalTx(l) ==
  [user_id |-> l.user_id, tx_type |-> "withdrawal",
   amount_sol |-> l.amount_sol, amount_usd |-> SolToUsd(l.amount_sol),
   status |-> "pending",
   meta |-> [network_fee_scaled |-> WithdrawFeeScaled(l.amount_sol)]]

\* main.py:217-218
WithdrawTx(p) ==
  /\ pc[p] = "wd_tx"
  /\ txs' = Append(txs, WithdrawalTx(loc[p]))
  /\ Return(p, [req |-> WithdrawReq(loc[p].user_id, loc[p].amount_sol),
                code |-> 200, ok |-> TRUE,
                fee_scaled |-> WithdrawFeeScaled(loc[p].amount_sol)])
  /\ UNCHANGED <<users, wallets, lobbies, matches, nreq, ncrash>>

WithdrawStep(p, n) == WithdrawFind(p, n) \/ WithdrawUpdate(p) \/ WithdrawTx(p)

\* ----------------------------------------------------- signup (main.py:111)
\* main.py:114-116: the e-mail is looked up.
SignupFind(p, n) ==
  /\ CanStart(p, n)
  /\ \E e \in Emails :
       IF e \in Range(users)
       THEN Return(p, [req |-> SignupReq(e), code |-> 400])
       ELSE Goto(p, "su_user", [NoLoc EXCEPT !.rid = nreq + 1, !.email = e])
  /\ nreq' = nreq + 1
  /\ UNCHANGED <<users, wallets, lobbies, matches, txs, ncrash>>

\* main.py:129: the user is inserted; its id is generated by the store.
SignupUser(p) ==
  /\ pc[p] = "su_user"
  /\ users' = Append(users, loc[p].email)
  /\ Goto(p, "su_wallet", [loc[p] EXCEPT !.user_id = Len(users) + 1])
  /\ UNCHANGED <<wallets, lobbies, matches, txs, nreq, ncrash>>

\* main.py:131-140: the wallet of the new user, with balance 0
SignupWallet(p) ==
  /\ pc[p] = "su_wallet"
  /\ wallets' = wallets @@ (loc[p].user_id :> [balance_sol |-> 0, balance_usd |-> 0])
  /\ Return(p, [req |-> SignupReq(loc[p].email), code |-> 200,
                user_id |-> loc[p].user_id])
  /\ UNCHANGED <<users, lobbies, matches, txs, nreq, ncrash>>

SignupStep(p, n) == SignupFind(p, n) \/ SignupUser(p) \/ SignupWallet(p)

\* The worker dies in the middle of a request: what it wrote stays written,
\* the rest of the handler never runs and no response is sent.
Crash(p) ==
  /\ pc[p] # "idle"
  /\ ncrash < MaxCrashes
  /\ ncrash' = ncrash + 1
  /\ Return(p, NoResp)
  /\ UNCHANGED <<users, wallets, lobbies, matches, txs, nreq>>

\* --------------------------------------------------------- request bodies
Entry(u, r, s) == [user_id |-> u, rank |-> r, score |-> s]

\* Results the settlement requests carry: none, one entry for the signed-up
\* user, one for a player without wallet, and a list whose second entry wins.
SomeResults ==
  { <<>>,
    << Entry(1, 1, 10) >>,
    << Entry(101, 1, 10) >>,
    << Entry(1, 2, 10), Entry(2, 1, 5) >> }

Step(p, n) ==
  \/ JoinStep(p, n)
  \/ CompleteStep(p, SomeResults, n)
  \/ WithdrawStep(p, n)
  \/ SignupStep(p, n)

\* Requests are served concurrently by the workers.
Next == \E p \in Procs : Step(p, MaxRequests)
Spec == Init /\ [][Next]_vars

\* One request at a time: a single worker serves every request.
SeqNext == Step(1, MaxSeqRequests)
SeqSpec == Init /\ [][SeqNext]_vars

\* Every results list of up to MaxResults entries over the ranks and scores
\* below; the entry at position k names user ResultUsers[k].
ResultUsers == <<1, 2, 101, 102>>
Ranks == {NoRank, 1, 2, 9999, 10000}
Scores == {5, 10}
ResultsOfLen(n) ==
  {[k \in 1..n |-> Entry(ResultUsers[k], f[k][1], f[k][2])] :
     f \in [1..n -> Ranks \X Scores]}
AllResults == UNION {ResultsOfLen(n) : n \in 0..MaxResults}

\* The state after user 1's join has filled lobby 1 and created match 1.
StartedLobby(l, rid) == [l EXCEPT !.status = "started", !.started_at = rid]
WinnerInit ==
  LET ps == Append(Prefix(Fillers, 9), 1)
      l  == [NoLoc EXCEPT !.rid = 1, !.user_id = 1, !.wager_usd = 1000,
                          !.lobby_id = 1, !.players = ps,
                          !.max_players = DefaultMaxPlayers]
  IN  /\ users = <<"a">>
      /\ wallets = (1 :> [balance_sol |-> 0, balance_usd |-> 0])
      /\ lobbies = << StartedLobby(WaitingLobby(1000, ps), 1),
                      WaitingLobby(30, Prefix(Fillers, 9)) >>
      /\ matches = << NewMatch(l) >>
      /\ txs = <<>>
      /\ pc = [p \in Procs |-> "idle"]
      /\ loc = [p \in Procs |-> NoLoc]
      /\ resp = [p \in Procs |-> IF p = 1
                   THEN [req |-> JoinReq(1, 1000), code |-> 200,
                         status |-> "started", lobby_id |-> 1, match_id |-> 1,
                         players |-> ps]
                   ELSE NoResp]
      /\ nreq = 1
      /\ ncrash = 0

\* Settlement requests with any of the results lists, one at a time.
WinnerNext == CompleteStep(1, AllResults, MaxWinnerRequests)
WinnerSpec == WinnerInit /\ [][WinnerNext]_vars

\* One request at a time, and the worker may die in the middle of one.
CrashNext == Step(1, MaxCrashRequests) \/ Crash(1)
CrashSpec == Init /\ [][CrashNext]_vars

\* JoinLobbyBody.wager_usd is a float that join_lobby never validates: a
\* wager of -0.10 USD is served like any other.  The state after nine joins
\* with wager 0.10 USD and nine joins with wager -0.10 USD.
NegWagers == {1000, -1000}
NegInit ==
  /\ users = <<"a">>
  /\ wallets = (1 :> [balance_sol |-> 0, balance_usd |-> 0])
  /\ lobbies = << WaitingLobby(1000, Prefix(Fillers, 9)),
                  WaitingLobby(-1000, Prefix(Fillers, 9)) >>
  /\ matches = <<>>
  /\ txs = <<>>
  /\ pc = [p \in Procs |-> "idle"]
  /\ loc = [p \in Procs |-> NoLoc]
  /\ resp = [p \in Procs |-> NoResp]
  /\ nreq = 0
  /\ ncrash = 0
NegStep(p, n) ==
  \/ JoinFindIn(p, NegWagers, n)
  \/ JoinInsert(p) \/ JoinAdd(p) \/ JoinStart(p) \/ JoinMatch(p)
  \/ CompleteStep(p, SomeResults, n)
  \/ WithdrawStep(p, n)
NegNext == \E p \in Procs : NegStep(p, MaxNegRequests)
NegSpec == NegInit /\ [][NegNext]_vars

\* The store in which no lobby with wager 0.10 USD exists yet: the state
\* after signup of "a" and nine joins with wager 0.003 USD; the workers serve
\* joins concurrently.
FreshInit ==
  /\ users = <<"a">>
  /\ wallets = (1 :> [balance_sol |-> 0, balance_usd |-> 0])
  /\ lobbies = << WaitingLobby(30, Prefix(Fillers, 9)) >>
  /\ matches = <<>>
  /\ txs = <<>>
  /\ pc = [p \in Procs |-> "idle"]
  /\ loc = [p \in Procs |-> NoLoc]
  /\ resp = [p \in Procs |-> NoResp]
  /\ nreq = 0
  /\ ncrash = 0
FreshNext == \E p \in Procs : JoinStep(p, MaxJoinRequests)
FreshSpec == FreshInit /\ [][FreshNext]_vars

\* The state after user 1's two joins have filled lobby 1 and lobby 2 and
\* created match 1 and match 2; from there on the workers serve settlement
\* and withdrawal requests concurrently.
LedgerInit ==
  LET ps == Append(Prefix(Fillers, 9), 1)
      l1 == [NoLoc EXCEPT !.rid = 1, !.user_id = 1, !.wager_usd = 1000,
                          !.lobby_id = 1, !.players = ps,
                          !.max_players = DefaultMaxPlayers]
      l2 == [l1 EXCEPT !.rid = 2, !.wager_usd = 30, !.lobby_id = 2]
  IN  /\ users = <<"a">>
      /\ wallets = (1 :> [balance_sol |-> 0, balance_usd |-> 0])
      /\ lobbies = << StartedLobby(WaitingLobby(1000, ps), 1),
                      StartedLobby(WaitingLobby(30, ps), 2) >>
      /\ matches = << NewMatch(l1), NewMatch(l2) >>
      /\ txs = <<>>
      /\ pc = [p \in Procs |-> "idle"]
      /\ loc = [p \in Procs |-> NoLoc]
      /\ resp = [p \in Procs |-> IF p = 1
                   THEN [req |-> JoinReq(1, 30), code |-> 200,
                         status |-> "started", lobby_id |-> 2, match_id |-> 2,
                         players |-> ps]
                   ELSE NoResp]
      /\ nreq = 2
      /\ ncrash = 0
LedgerStep(p, n) == CompleteStep(p, SomeResults, n) \/ WithdrawStep(p, n)
LedgerNext == \E p \in Procs : LedgerStep(p, MaxLedgerRequests)
LedgerSpec == LedgerInit /\ [][LedgerNext]_vars

\* ================================================================ claims
Idle == \A p \in Procs : pc[p] = "idle"
MatchIds == 1..Len(matches)
LobbyIds == 1..Len(lobbies)

\* The payout transactions that reference match mid.
PayoutTxsFor(mid) ==
  {i \in 1..Len(txs) : txs[i].tx_type = "payout" /\ txs[i].meta.match_id = mid}
\* The matches created for lobby i.
MatchesOf(i) == {mid \in MatchIds : matches[mid].lobby_id = i}
NoDuplicates(ps) == \A i, j \in 1..Len(ps) : ps[i] = ps[j] => i = j

\* ---------------------------------------------------------------------
\* C1: CompleteMatch called again and again, one call after the other, for
\* the same match credits the winner once.  No match ever has two payout
\* transactions, and a wallet balance is raised only by the one call that
\* completed the match (the call whose stamp completed_at carries), before
\* any payout transaction of that match exists: the calls that follow leave
\* every balance as the first call left it.
C1_NoSecondPayoutTx == \A mid \in MatchIds : Cardinality(PayoutTxsFor(mid)) <= 1
C1_CreditOnlyByCompletingCall ==
  \A u \in DOMAIN wallets :
    wallets'[u].balance_sol > wallets[u].balance_sol =>
      /\ pc[1] = "cm_credit"
      /\ loc[1].winner = u
      /\ matches[loc[1].match_id].completed_at = loc[1].rid
      /\ PayoutTxsFor(loc[1].match_id) = {}
      /\ pc'[1] = "cm_tx"
\* C1: repeated sequential CompleteMatch calls credit the winner once.
C1_CreditedOnce ==
  [](C1_NoSecondPayoutTx) /\ [][C1_CreditOnlyByCompletingCall]_vars
\* A second call for match 1 has answered {"ok": True} and the winner's
\* balance is the one payout of 0.0045 SOL.
C1_Witness ==
  /\ Len(matches) >= 1 /\ matches[1].winner_user_id = 1
  /\ Cardinality(PayoutTxsFor(1)) = 1
  /\ wallets[1].balance_sol = 450000
  /\ pc[1] = "idle" /\ resp[1].code = 200
  /\ resp[1].req.op = "complete_match" /\ resp[1].req.match_id = 1
  /\ "winner" \notin DOMAIN resp[1]

\* ---------------------------------------------------------------------
\* C2: with two CompleteMatch requests for one match running concurrently,
\* the two never both pass the "not yet completed" check and credit: at most
\* one payout transaction is inserted for a match whose winner has a wallet.
C2_AtMostOneConcurrentCredit ==
  \A i, j \in 1..Len(txs) :
    (/\ txs[i].tx_type = "payout" /\ txs[j].tx_type = "payout"
     /\ txs[i].meta.match_id = txs[j].meta.match_id
     /\ txs[i].user_id \in DOMAIN wallets
     /\ txs[j].user_id \in DOMAIN wallets)
    => i = j

\* ---------------------------------------------------------------------
\* C3: after any sequence of JoinLobby calls every lobby holds at most
\* max_players players and no user twice.
C3_LobbyBounded ==
  \A i \in LobbyIds :
    /\ Len(lobbies[i].players) <= lobbies[i].max_players
    /\ NoDuplicates(lobbies[i].players)
\* Lobby 1 is filled to its ten players, user 1 sits in lobby 3 and sends a
\* further join for the same wager, for which lobby 3 has been found.
C3_Witness ==
  /\ Len(lobbies) = 3
  /\ Len(lobbies[1].players) = lobbies[1].max_players
  /\ lobbies[3].players = <<1>>
  /\ pc[1] = "jl_add" /\ loc[1].user_id = 1 /\ loc[1].lobby_id = 3

\* ---------------------------------------------------------------------
\* C4: two concurrent JoinLobby requests for the one free slot of a lobby
\* never overfill it, never both create a match for it, and whoever is
\* answered "started" is in the lobby's stored list once the requests are
\* over.
\* Two joins, one per worker, by different users have been served and
\* nothing else.
TwoJoinsServed ==
  /\ Idle /\ nreq = 2
  /\ \A p \in Procs : resp[p].req.op = "join_lobby"
  /\ resp[1].req.user_id # resp[2].req.user_id
\* C4: the fill race neither overfills the lobby nor creates two matches, and
\* a caller answered "started" is in the stored list.
C4_FillRaceSafe ==
  TwoJoinsServed =>
    /\ \A i \in LobbyIds : Len(lobbies[i].players) <= lobbies[i].max_players
    /\ \A i \in LobbyIds : Cardinality(MatchesOf(i)) <= 1
    /\ \A p \in Procs :
         resp[p].status = "started"
         => resp[p].req.user_id \in Range(lobbies[resp[p].lobby_id].players)

\* ---------------------------------------------------------------------
\* C5: once the join that fills a lobby has returned, the lobby is
\* "started", exactly one match exists for it and the match's players are
\* the lobby's players in the same order; a match exists only for a started
\* lobby; a started lobby and the players of a match never change again.
C5_OneMatchPerFilledLobby ==
  /\ Idle =>
       \A i \in LobbyIds :
         Len(lobbies[i].players) >= lobbies[i].max_players =>
           /\ lobbies[i].status = "started"
           /\ Cardinality(MatchesOf(i)) = 1
           /\ \A mid \in MatchesOf(i) : matches[mid].players = lobbies[i].players
  /\ \A mid \in MatchIds : lobbies[matches[mid].lobby_id].status = "started"
C5_StartedIsFinal ==
  /\ \A i \in LobbyIds : lobbies[i].status = "started" => lobbies'[i] = lobbies[i]
  /\ \A mid \in MatchIds : /\ mid <= Len(matches')
                           /\ matches'[mid].players = matches[mid].players
                           /\ matches'[mid].lobby_id = matches[mid].lobby_id
\* C5: the filling join starts the lobby once and creates its one match.
C5_FillStartsOneMatch ==
  [](C5_OneMatchPerFilledLobby) /\ [][C5_StartedIsFinal]_vars
\* Lobby 1 was filled by user 2, its match exists, and two more requests
\* (a join among them: lobby 3) have been served since.
C5_Witness ==
  /\ Idle /\ Len(matches) = 1 /\ Len(lobbies) = 3
  /\ lobbies[1].status = "started"
  /\ matches[1].players = Append(Prefix(Fillers, 9), 2)
  /\ lobbies[1].players = matches[1].players
  /\ nreq >= 3

\* ---------------------------------------------------------------------
\* C6: settling a match whose winner has no wallet marks the match completed
\* with the winner recorded, answers success with a MissingWallet flag,
\* changes no wallet and creates no payout transaction.
C6_MissingWalletNoPayoutTx ==
  /\ \A mid \in MatchIds :
       (AlreadyCompleted(matches[mid])
          /\ matches[mid].winner_user_id \notin DOMAIN wallets)
       => PayoutTxsFor(mid) = {}
  /\ \A p \in Procs :
       (/\ resp[p].req.op = "complete_match" /\ resp[p].code = 200
        /\ "winner" \in DOMAIN resp[p]
        /\ resp[p].winner \notin DOMAIN wallets)
       => "missing_wallet" \in DOMAIN resp[p]

\* ---------------------------------------------------------------------
\* C7: a worker that dies after marking a match completed and before
\* crediting leaves work that a later CompleteMatch call for the match
\* finishes: when such a call has answered success and the recorded winner
\* has a wallet, the payout of the match has been credited and recorded.
C7_LaterCallFinishesCredit ==
  \A p \in Procs :
    (resp[p].req.op = "complete_match" /\ resp[p].code = 200
       /\ resp[p].req.results # <<>>) =>
      LET mid == resp[p].req.match_id
      IN  matches[mid].winner_user_id \in DOMAIN wallets
            => PayoutTxsFor(mid) # {}

\* ---------------------------------------------------------------------
\* C8 (as claimed): the recorded winner is the first entry of the results
\* sorted by ascending rank, ties broken by descending score, an entry
\* without rank ordered after every entry that has one.
HasRank(r) == r.rank # NoRank
ClaimedBefore(a, b) ==
  \/ HasRank(a) /\ ~HasRank(b)
  \/ HasRank(a) /\ HasRank(b) /\ a.rank < b.rank
  \/ HasRank(a) = HasRank(b) /\ (HasRank(a) => a.rank = b.rank) /\ a.score > b.score
\* C8 (as claimed): winner by rank, then score, entries without rank last.
C8_AbsentRankLast ==
  \A mid \in MatchIds :
    AlreadyCompleted(matches[mid]) =>
      \E i \in 1..Len(matches[mid].results) :
        /\ matches[mid].results[i].user_id = matches[mid].winner_user_id
        /\ \A j \in 1..Len(matches[mid].results) :
             ~ClaimedBefore(matches[mid].results[j], matches[mid].results[i])

\* C8 (amended): the recorded winner is the first entry of the results
\* sorted by ascending rank, ties broken by descending score, an entry
\* without rank counting as rank 9999; of several entries with the best rank
\* and score the one listed first wins.
RankOr9999(r) == IF HasRank(r) THEN r.rank ELSE 9999
AmendedBefore(a, b) ==
  \/ RankOr9999(a) < RankOr9999(b)
  \/ RankOr9999(a) = RankOr9999(b) /\ a.score > b.score
\* C8 (amended): winner by rank, then score, a missing rank counting as 9999.
C8_WinnerByRankThenScore ==
  \A mid \in MatchIds :
    AlreadyCompleted(matches[mid]) =>
      LET rs == matches[mid].results
      IN  \E i \in 1..Len(rs) :
            /\ rs[i].user_id = matches[mid].winner_user_id
            /\ \A j \in 1..Len(rs) : ~AmendedBefore(rs[j], rs[i])
            /\ \A j \in 1..(i - 1) : AmendedBefore(rs[i], rs[j])
\* Match 1 is settled with an entry without rank listed before an entry of
\* rank 2: the second entry won and its payout is recorded.
C8_Witness ==
  /\ AlreadyCompleted(matches[1])
  /\ matches[1].results = << Entry(1, NoRank, 10), Entry(2, 2, 5) >>
  /\ matches[1].winner_user_id = 2
  /\ Cardinality(PayoutTxsFor(1)) = 1

\* ---------------------------------------------------------------------
\* C9 (as claimed): pot = wager x players, fee = 10% of the pot, payout =
\* pot - fee, the winner's balance rises by exactly the payout divided by
\* the price of 200, and the payout transaction records payout, pot, fee.
Abs(x) == IF x >= 0 THEN x ELSE 0 - x
MatchPot(m) == m.wager_usd * Len(m.players)
C9_ExactTx ==
  \A i \in 1..Len(txs) :
    (txs[i].tx_type = "payout" /\ txs[i].user_id \in DOMAIN wallets) =>
      LET pot == MatchPot(matches[txs[i].meta.match_id])
      IN  /\ txs[i].meta.pot_usd = pot
          /\ txs[i].meta.fee_usd * 10 = pot
          /\ txs[i].amount_usd = pot - txs[i].meta.fee_usd
          /\ txs[i].amount_sol * 200 = txs[i].amount_usd * 10000
C9_ExactCredit ==
  \A u \in DOMAIN wallets :
    wallets'[u].balance_sol > wallets[u].balance_sol =>
      LET pot == MatchPot(matches[loc[1].match_id])
      IN  (wallets'[u].balance_sol - wallets[u].balance_sol) * 200
            = (pot - pot \div 10) * 10000
\* C9 (as claimed): fee exactly 10% of the pot, balance raised by exactly the
\* payout converted.
C9_ExactPayout == [](C9_ExactTx) /\ [][C9_ExactCredit]_vars

\* C9 (amended): pot = wager x players; the fee is 10% of the pot rounded to
\* whole cents and the payout is pot - fee rounded to whole cents; the payout
\* in SOL is the payout divided by 200, rounded to 6 decimals; the winner's
\* balance becomes the old balance plus the payout in SOL, rounded to 6
\* decimals (balance_usd: that times 200, rounded to cents); the payout
\* transaction records this payout, the pot and the fee.  Rounding is to
\* the nearest step, a tie going to the even multiple.
Nearest(num, den, step) ==
  LET lo == step * (num \div (den * step))
      hi == lo + step
  IN  IF 2 * Abs(lo * den - num) < step * den THEN lo
      ELSE IF 2 * Abs(lo * den - num) > step * den THEN hi
      ELSE IF (lo \div step) % 2 = 0 THEN lo ELSE hi
RefFee(pot) == Nearest(pot, 10, 100)
RefPayoutUsd(pot) == Nearest(pot - RefFee(pot), 1, 100)
RefPayoutSol(pot) == Nearest(RefPayoutUsd(pot) * 10000, 200, 100)
C9_RoundedTx ==
  /\ \A i \in 1..Len(txs) :
       txs[i].tx_type = "payout" =>
         LET m == matches[txs[i].meta.match_id]
         IN  /\ txs[i].user_id = m.winner_user_id
             /\ txs[i].status = "confirmed"
             /\ txs[i].meta.pot_usd = MatchPot(m)
             /\ txs[i].meta.fee_usd = RefFee(MatchPot(m))
             /\ txs[i].amount_usd = RefPayoutUsd(MatchPot(m))
             /\ txs[i].amount_sol = RefPayoutSol(MatchPot(m))
  \* the spec's example: wager 5 USD, 4 players
  /\ Pot(50000, 4) = 200000 /\ Fee(200000) = 20000 /\ PayoutUsd(200000) = 180000
  /\ PayoutSol(200000) = 9000000
C9_RoundedCredit ==
  pc[1] = "cm_credit" =>
    LET u == loc[1].winner
        m == matches[loc[1].match_id]
    IN  /\ u = m.winner_user_id
        /\ wallets'[u].balance_sol =
             Nearest(wallets[u].balance_sol + RefPayoutSol(MatchPot(m)), 1, 100)
        /\ wallets'[u].balance_usd = Nearest(wallets'[u].balance_sol * 200, 10000, 100)
        /\ \A v \in DOMAIN wallets \ {u} : wallets'[v] = wallets[v]
\* C9 (amended): fee, payout and new balance as rounded by the code.
C9_RoundedPayout == [](C9_RoundedTx) /\ [][C9_RoundedCredit]_vars
\* User 1 has won the 0.10 USD match (0.0045 SOL), withdrawn 0.00255 SOL
\* (balance 0.0019449) and won the 0.003 USD match, whose fee rounds to 0 and
\* whose payout of 0.00015 SOL leaves 0.002095 SOL in the wallet.
C9_Witness ==
  /\ Idle /\ Len(txs) = 3
  /\ txs[3].tx_type = "payout" /\ txs[3].meta.fee_usd = 0
  /\ txs[3].amount_sol = 15000
  /\ wallets[1].balance_sol = 209500

\* ---------------------------------------------------------------------
\* C10: whenever no request is in flight, every wallet's balance is the sum
\* of the user's confirmed transactions, payouts counted positive and
\* withdrawals negative.
RECURSIVE ConfirmedSum(_, _)
ConfirmedSum(u, n) ==
  IF n = 0 THEN 0
  ELSE ConfirmedSum(u, n - 1) +
       (IF txs[n].user_id = u /\ txs[n].status = "confirmed"
        THEN (IF txs[n].tx_type = "payout" THEN txs[n].amount_sol
              ELSE IF txs[n].tx_type = "withdrawal" THEN 0 - txs[n].amount_sol
              ELSE 0)
        ELSE 0)
\* Stated for the users whose wallet exists from the start, so that no
\* payout recorded before the wallet existed is counted against it.
\* C10: with no request in flight, balance = sum of confirmed transactions.
C10_BalanceReconciles ==
  Idle => \A u \in DOMAIN wallets \cap {1} :
            wallets[u].balance_sol = ConfirmedSum(u, Len(txs))

\* ---------------------------------------------------------------------
\* C11: in every reachable state, under any sequence and interleaving of
\* withdraw and CompleteMatch requests, no wallet's balance is negative.
C11_BalanceNeverNegative ==
  \A u \in DOMAIN wallets : wallets[u].balance_sol >= 0

\* ---------------------------------------------------------------------
\* C12: balance mutations on one wallet are serialised.  When the requests
\* are over and every one of them has logged its transaction, the balance
\* is what the logged withdrawals and payout credits of the user give when
\* they are applied one after the other in some order, none of them refused.
\* (Stated for the behaviours with at most one payout to the user, so that
\* the operations that ran concurrently include a withdrawal.)
UserTxs(u) == {i \in 1..Len(txs) : txs[i].user_id = u}
SerialOrders(S) ==
  {f \in [1..Cardinality(S) -> S] :
     \A a, b \in 1..Cardinality(S) : f[a] = f[b] => a = b}
\* The balance after the transactions f[k], f[k+1], ... applied to bal; -1
\* when one of them is refused.
RECURSIVE ApplySerially(_, _, _)
ApplySerially(bal, f, k) ==
  IF k > Len(f) THEN bal
  ELSE LET t == txs[f[k]]
       IN  IF t.tx_type = "payout"
           THEN ApplySerially(Credit(bal, t.amount_sol), f, k + 1)
           ELSE IF bal < t.amount_sol \/ AfterWithdraw(bal, t.amount_sol) < 0
           THEN -1
           ELSE ApplySerially(AfterWithdraw(bal, t.amount_sol), f, k + 1)
SerialBalances(u) == {ApplySerially(0, f, 1) : f \in SerialOrders(UserTxs(u))} \ {-1}
\* C12: the final balance is the outcome of some serial order.
C12_NoLostUpdate ==
  (Idle /\ Cardinality({i \in UserTxs(1) : txs[i].tx_type = "payout"}) <= 1) =>
    wallets[1].balance_sol \in SerialBalances(1)

\* ---------------------------------------------------------------------
\* C13: a CompleteMatch call none of whose results names a player of the
\* match fails and changes nothing: the winner of a completed match is one
\* of the match's players, and a payout is recorded for (and credited to) a
\* player of its match only.
NamesNoPlayer(rs, ps) == \A k \in 1..Len(rs) : rs[k].user_id \notin Range(ps)
\* C13: results that name no player complete nothing and pay nobody.
C13_WinnerIsPlayer ==
  /\ \A mid \in MatchIds :
       (AlreadyCompleted(matches[mid])
          /\ NamesNoPlayer(matches[mid].results, matches[mid].players))
       => matches[mid].winner_user_id \in Range(matches[mid].players)
  /\ \A i \in 1..Len(txs) :
       (txs[i].tx_type = "payout" /\ txs[i].user_id \in DOMAIN wallets) =>
         txs[i].user_id \in Range(matches[txs[i].meta.match_id].players)
  /\ \A p \in Procs :
       (/\ resp[p].req.op = "complete_match"
        /\ resp[p].req.match_id \in MatchIds
        /\ NamesNoPlayer(resp[p].req.results,
                         matches[resp[p].req.match_id].players))
       => "winner" \notin DOMAIN resp[p]

\* ---------------------------------------------------------------------
\* C14: a lobby with status "started" has a match record with its lobby_id,
\* and every match record belongs to a lobby whose players list is full.
\* Stated for the states in which no request is in flight, a worker that
\* died in the middle of a join included.
C14_StartedLobbyHasMatch ==
  Idle =>
    /\ \A i \in LobbyIds : lobbies[i].status = "started" => MatchesOf(i) # {}
    /\ \A mid \in MatchIds :
         LET l == lobbies[matches[mid].lobby_id]
         IN  Len(l.players) >= l.max_players

\* ---------------------------------------------------------------------
\* C15: once a match is completed its winner never changes again, whatever
\* later or concurrent CompleteMatch requests for it carry.
C15_WinnerKept ==
  \A mid \in MatchIds :
    AlreadyCompleted(matches[mid]) =>
      matches'[mid].winner_user_id = matches[mid].winner_user_id
\* C15: the winner of a completed match is set once.
C15_WinnerSetOnce == [][C15_WinnerKept]_vars

\* ---------------------------------------------------------------------
\* C16: a join with a wager for which every existing lobby is full adds no
\* player to a full lobby and leaves the full lobbies' players and status as
\* they are; a new lobby is inserted instead, and when the call returns the
\* new lobby is "waiting", has capacity 10 and the joining user as its only
\* player.
IsFullLobby(i) == Len(lobbies[i].players) >= lobbies[i].max_players
NoRoomFor(w) == \A i \in LobbyIds : lobbies[i].wager_usd = w => IsFullLobby(i)
\* No step changes the players of a full lobby, and only the step that starts
\* the match changes its status.
C16_FullLobbyKept ==
  \A i \in LobbyIds :
    IsFullLobby(i) =>
      /\ lobbies'[i].players = lobbies[i].players
      /\ pc[1] # "jl_start" => lobbies'[i].status = lobbies[i].status
\* A join that arrives when there is no room selects no lobby.
C16_NoRoomInserts ==
  (/\ pc[1] = "idle" /\ pc'[1] # "idle"
   /\ loc'[1].user_id # 0 /\ loc'[1].wager_usd # 0
   /\ NoRoomFor(loc'[1].wager_usd))
  => pc'[1] = "jl_insert" /\ lobbies' = lobbies
\* The steps of the join that follow, unless the worker dies.
C16_InsertsNewLobby ==
  (pc[1] = "jl_insert" /\ ncrash' = ncrash) =>
    /\ lobbies' = Append(lobbies,
                         [wager_usd |-> loc[1].wager_usd, max_players |-> 10,
                          players |-> <<>>, status |-> "waiting",
                          created_at |-> loc[1].rid, started_at |-> 0])
    /\ pc'[1] = "jl_add" /\ loc'[1].lobby_id = Len(lobbies')
    /\ loc'[1].user_id = loc[1].user_id
C16_JoinsNewLobby ==
  (pc[1] = "jl_add" /\ lobbies[loc[1].lobby_id].players = <<>>
     /\ ncrash' = ncrash) =>
    /\ lobbies' = [lobbies EXCEPT ![loc[1].lobby_id].players = <<loc[1].user_id>>]
    /\ lobbies'[loc[1].lobby_id].status = "waiting"
    /\ lobbies'[loc[1].lobby_id].max_players = 10
    /\ pc'[1] = "idle" /\ resp'[1].code = 200 /\ resp'[1].status = "waiting"
    /\ resp'[1].lobby_id = loc[1].lobby_id
    /\ resp'[1].players = <<loc[1].user_id>>
\* C16: joining when the only lobbies are full creates a new lobby.
C16_FullLobbyNeverJoined ==
  [][/\ C16_FullLobbyKept /\ C16_NoRoomInserts
     /\ C16_InsertsNewLobby /\ C16_JoinsNewLobby]_vars
\* Lobby 1 holds ten players and is still "waiting" (the worker that filled
\* it died before starting it); the next join with its wager, by user 2,
\* has returned with the new lobby 3.
C16_Witness ==
  /\ Idle /\ Len(lobbies) = 3
  /\ Len(lobbies[1].players) = 10 /\ lobbies[1].status = "waiting"
  /\ lobbies[1].players = Append(Prefix(Fillers, 9), 1)
  /\ lobbies[3].wager_usd = lobbies[1].wager_usd
  /\ lobbies[3].players = <<2>> /\ lobbies[3].status = "waiting"
  /\ resp[1].req.op = "join_lobby" /\ resp[1].lobby_id = 3

\* ---------------------------------------------------------------------
\* C17: once a CompleteMatch call has completed the match of a lobby and
\* returned, the lobby's status is "completed".
C17_SettledLobbyCompleted ==
  \A p \in Procs :
    (/\ pc[p] = "idle" /\ resp[p].req.op = "complete_match"
     /\ resp[p].code = 200 /\ "winner" \in DOMAIN resp[p])
    => LET m == matches[resp[p].req.match_id]
       IN  AlreadyCompleted(m) => lobbies[m.lobby_id].status = "completed"

\* ---------------------------------------------------------------------
\* C18: a lobby's status only moves along waiting -> started -> completed,
\* and the players list of a lobby that is no longer "waiting" never changes,
\* whatever requests interleave.
StatusRank(st) == IF st = "waiting" THEN 0 ELSE IF st = "started" THEN 1 ELSE 2
C18_StatusForward ==
  \A i \in LobbyIds :
    StatusRank(lobbies'[i].status) >= StatusRank(lobbies[i].status)
C18_StartedPlayersKept ==
  \A i \in LobbyIds :
    lobbies[i].status # "waiting" => lobbies'[i].players = lobbies[i].players
\* C18: status never moves backwards, players of a started lobby are kept.
C18_StatusMonotonic == [][C18_StatusForward /\ C18_StartedPlayersKept]_vars

\* ---------------------------------------------------------------------
\* C19: when a join looks for a lobby and several are eligible (status
\* "waiting", the join's wager, fewer players than max_players), the lobby
\* it selects, to which the user is then added, is the one created earliest.
ClaimEligible(j, w) ==
  /\ lobbies[j].status = "waiting" /\ lobbies[j].wager_usd = w
  /\ Len(lobbies[j].players) < lobbies[j].max_players
C19_OldestSelected ==
  \A p \in Procs :
    (pc[p] = "idle" /\ pc'[p] = "jl_add") =>
      \A j \in LobbyIds :
        ClaimEligible(j, loc'[p].wager_usd) =>
          lobbies[loc'[p].lobby_id].created_at <= lobbies[j].created_at
\* C19: the eligible lobby created earliest is the one selected.
C19_OldestLobbyChosen == [][C19_OldestSelected]_vars

\* ---------------------------------------------------------------------
\* C20 (as claimed): no step of a JoinLobby call changes a wallet or the
\* transaction log, so that the settlement alone moves the total of all
\* wallet balances, and raises it by exactly the payout.
JoinLabels == {"jl_insert", "jl_add", "jl_start", "jl_match"}
IsJoinStep == \E p \in Procs : pc[p] \in JoinLabels \/ pc'[p] \in JoinLabels
RECURSIVE SumBalances(_, _)
SumBalances(w, S) ==
  IF S = {} THEN 0
  ELSE LET u == CHOOSE x \in S : TRUE
       IN  w[u].balance_sol + SumBalances(w, S \ {u})
TotalBalance(w) == SumBalances(w, DOMAIN w)
C20_JoinLeavesLedger == IsJoinStep => wallets' = wallets /\ txs' = txs
C20_TotalUpByPayout ==
  pc[1] = "cm_credit" =>
    TotalBalance(wallets') =
      TotalBalance(wallets) + RefPayoutSol(MatchPot(matches[loc[1].match_id]))
\* C20 (as claimed): joins leave the ledger alone, a settlement raises the
\* total by exactly the payout.
C20_LedgerExact == [][C20_JoinLeavesLedger /\ C20_TotalUpByPayout]_vars

\* C20 (amended): no step of a JoinLobby call changes a wallet or the
\* transaction log; a settlement that credits the winner replaces the
\* winner's balance by the old balance plus the payout, rounded to 6
\* decimals, and changes no other balance, so that the total rises by the
\* payout up to that rounding.
C20_TotalUpByRoundedCredit ==
  pc[1] = "cm_credit" =>
    LET old == wallets[loc[1].winner].balance_sol
        pay == RefPayoutSol(MatchPot(matches[loc[1].match_id]))
    IN  /\ TotalBalance(wallets') =
             TotalBalance(wallets) - old + Nearest(old + pay, 1, 100)
        /\ Abs(TotalBalance(wallets') - TotalBalance(wallets) - pay) <= 50
\* C20 (amended): joins leave the ledger alone, a settlement raises the
\* total by the payout up to the rounding of the new balance.
C20_LedgerRounded ==
  [][C20_JoinLeavesLedger /\ C20_TotalUpByRoundedCredit]_vars
\* User 1 has filled both lobbies; between the two settlements in his favour
\* he has withdrawn 0.00255 SOL, and the second credit of 0.00015 SOL has
\* raised the total from 0.0019449 to 0.002095 SOL.
C20_Witness ==
  /\ Idle /\ Len(matches) = 2
  /\ \A mid \in MatchIds : /\ AlreadyCompleted(matches[mid])
                           /\ matches[mid].winner_user_id = 1
                           /\ 1 \in Range(matches[mid].players)
  /\ TotalBalance(wallets) = 209500
  /\ resp[1].req.op = "complete_match" /\ "winner" \in DOMAIN resp[1]

====
